---------------------------- MODULE Spec2Model ----------------------------
(***************************************************************************)
(* Model of dashboard.py: the readiness extractor (extract_readiness_rows) *)
(* and the ETag-cached board loader (load_board), with the blob store and  *)
(* the one-second listing memo they run against.                           *)
(*                                                                         *)
(* Python/JSON values are records [t |-> type, v |-> payload]:             *)
(*   NoneType  v = <<>>                                                    *)
(*   bool      v = <<"T","r","u","e">> or <<"F","a","l","s","e">>          *)
(*   int       v = its decimal digits                                      *)
(*   str       v = its characters                                          *)
(*   dtstr     a str that dateutil parses; v = [secs, aware]               *)
(*   dict      v = function from keys to values                            *)
(*   list      v = sequence of values                                      *)
(*   float     v = the value in tenths (all floats here have one decimal)  *)
(*   datetime  v = [secs, aware]                                           *)
(* For bool, int and str the payload is the text str(x) returns.           *)
(***************************************************************************)
EXTENDS Integers, Sequences, FiniteSets, TLC

VARIABLES
    events,      \* argument of the direct extract_readiness_rows call
    now,         \* wall clock, seconds (datetime.now)
    out,         \* outcome of the latest direct call
    prev,        \* outcome of the direct call before it
    store,       \* blob container: name -> [etag, text, past]; past = the texts
                 \* it held under ETags 0, 1, ... before the current one
    metaMemo,    \* st.cache_data entry of _list_meta_cached (ttl = 1 s)
    blob_cache,  \* st.session_state.blob_cache: name -> [etag, rows]
    board        \* observation of the latest load_board call

vars == <<events, now, out, prev, store, metaMemo, blob_cache, board>>

----------------------------------------------------------------------------
(* Python values *)

None == [t |-> "NoneType", v |-> <<>>]
PyTrue == [t |-> "bool", v |-> <<"T","r","u","e">>]
PyFalse == [t |-> "bool", v |-> <<"F","a","l","s","e">>]
PyInt(digits) == [t |-> "int", v |-> digits]
PyStr(chars) == [t |-> "str", v |-> chars]
PyDtStr(secs, aware) == [t |-> "dtstr", v |-> [secs |-> secs, aware |-> aware]]
PyList(seq) == [t |-> "list", v |-> seq]

\* a dict literal: pairs <<key, value>>
PyDict(pairs) ==
    [t |-> "dict",
     v |-> [k \in {p[1] : p \in pairs} |-> (CHOOSE p \in pairs : p[1] = k)[2]]]

Digits == <<"0","1","2","3","4","5","6","7","8","9">>
DigitVal(c) == (CHOOSE i \in DOMAIN Digits : Digits[i] = c) - 1
IsDigit(c) == \E i \in DOMAIN Digits : Digits[i] = c

\* zero as an int is falsy; any other modelled int is truthy
IsZeroText(s) == \A i \in DOMAIN s : s[i] = "0"

\* bool(x): Python truth value
Truthy(x) ==
    CASE x.t = "NoneType" -> FALSE
      [] x.t = "bool" -> x.v = PyTrue.v
      [] x.t = "int" -> ~IsZeroText(x.v)
      [] x.t = "str" -> Len(x.v) > 0
      [] x.t = "dtstr" -> TRUE
      [] x.t = "datetime" -> TRUE
      [] x.t = "float" -> x.v # 0
      [] x.t = "dict" -> DOMAIN x.v # {}
      [] x.t = "list" -> Len(x.v) > 0

IsNone(x) == x.t = "NoneType"
\* x is False
IsFalse(x) == x.t = "bool" /\ x.v = PyFalse.v

\* a or b
Or(a, b) == IF Truthy(a) THEN a ELSE b

HasGet(x) == x.t = "dict"

\* d.get(k) on a dict
Get(d, k) == IF k \in DOMAIN d.v THEN d.v[k] ELSE None

\* str(x)
Str(x) ==
    CASE x.t = "NoneType" -> <<"N","o","n","e">>
      [] x.t \in {"bool", "int", "str"} -> x.v
      [] OTHER -> <<"?">>   \* a repr or date text: never one of the accepted words

UpperCase == <<"A","B","C","D","E","F","G","H","I","J","K","L","M",
               "N","O","P","Q","R","S","T","U","V","W","X","Y","Z">>
LowerCase == <<"a","b","c","d","e","f","g","h","i","j","k","l","m",
               "n","o","p","q","r","s","t","u","v","w","x","y","z">>

\* s.lower()
Lower(s) ==
    [i \in DOMAIN s |->
        IF \E k \in DOMAIN UpperCase : UpperCase[k] = s[i]
        THEN LowerCase[CHOOSE k \in DOMAIN UpperCase : UpperCase[k] = s[i]]
        ELSE s[i]]

\* sub in s, for strings
Contains(s, sub) ==
    \E i \in 0..(Len(s) - Len(sub)) :
        \A j \in 1..Len(sub) : s[i + j] = sub[j]

\* the words the UEFI and Secure Boot checks accept
TruthWords == {<<"t","r","u","e">>, <<"1">>, <<"y","e","s">>, <<"o","n">>}

----------------------------------------------------------------------------
(* Numbers.  A byte count does not fit a 32-bit integer, so int(x) is kept  *)
(* as two limbs: hi * Limb + lo with 0 <= lo < Limb.                        *)

Limb == 1024 * 1024
GiB == 1024 * 1024 * 1024
SecondsPerDay == 86400
MIN_FREE_GB == 16

RECURSIVE ParseDecimal(_, _, _)
ParseDecimal(s, i, acc) ==
    IF i > Len(s) THEN acc
    ELSE LET lo10 == acc.lo * 10 + DigitVal(s[i])
         IN  ParseDecimal(s, i + 1,
                 [hi |-> acc.hi * 10 + lo10 \div Limb, lo |-> lo10 % Limb])

IsDecimal(s) == Len(s) > 0 /\ \A i \in DOMAIN s : IsDigit(s[i])

\* int(x): [ok |-> FALSE] when it raises TypeError or ValueError
ToInt(x) ==
    CASE x.t = "int" -> [ok |-> TRUE, n |-> ParseDecimal(x.v, 1, [hi |-> 0, lo |-> 0])]
      [] x.t = "bool" -> [ok |-> TRUE, n |-> [hi |-> 0, lo |-> IF Truthy(x) THEN 1 ELSE 0]]
      [] x.t = "str" /\ IsDecimal(x.v) ->
            [ok |-> TRUE, n |-> ParseDecimal(x.v, 1, [hi |-> 0, lo |-> 0])]
      [] OTHER -> [ok |-> FALSE]

\* round(n / d) to the nearest integer, ties to even (d > 0)
RoundHalfEven(n, d) ==
    LET q == n \div d
        r == n % d
    IN  IF 2 * r > d \/ (2 * r = d /\ q % 2 = 1) THEN q + 1 ELSE q

\* round(n / 1024**3, 1), in tenths of a GiB
RoundGbTenths(n) ==
    LET lo10 == n.lo * 10
        hi10 == n.hi * 10 + lo10 \div Limb
        q    == hi10 \div (GiB \div Limb)
        rem  == (hi10 % (GiB \div Limb)) * Limb + (lo10 % Limb)
    IN  IF rem > GiB \div 2 \/ (rem = GiB \div 2 /\ q % 2 = 1) THEN q + 1 ELSE q

\* a float with one decimal, held in tenths
PyFloat(tenths) == [t |-> "float", v |-> tenths]

\* a datetime: seconds since the epoch, aware (tzinfo set) or naive
PyDateTime(secs, aware) == [t |-> "datetime", v |-> [secs |-> secs, aware |-> aware]]

safe_dt(x) ==
    CASE x.t = "NoneType" -> None
      \* epoch seconds (the modelled ones fit one limb); bool is an int subclass
      [] x.t \in {"int", "bool"} -> PyDateTime(ToInt(x).n.lo, TRUE)
      [] x.t = "dtstr" -> PyDateTime(x.v.secs, x.v.aware)
      [] OTHER -> None      \* a str dateutil rejects, or any other type

----------------------------------------------------------------------------
(* extract_readiness_rows *)

EmptyDict == [t |-> "dict", v |-> <<>>]
EmptyList == PyList(<<>>)
PyBool(b) == IF b THEN PyTrue ELSE PyFalse

\* disks[0] if disks else {}: [ok |-> FALSE] when the subscript raises
Disk0(disks) ==
    CASE ~Truthy(disks) -> [ok |-> TRUE, x |-> EmptyDict]
      [] disks.t = "list" -> [ok |-> TRUE, x |-> disks.v[1]]
      [] disks.t = "str" -> [ok |-> TRUE, x |-> PyStr(<<disks.v[1]>>)]
      [] OTHER -> [ok |-> FALSE]   \* KeyError on a dict, TypeError on a number

\* the elements `for n in networks` yields: [ok |-> FALSE] when not iterable
Iterate(x) ==
    CASE x.t = "list" -> [ok |-> TRUE, xs |-> x.v]
      [] x.t = "str" -> [ok |-> TRUE, xs |-> [i \in DOMAIN x.v |-> PyStr(<<x.v[i]>>)]]
      [] x.t = "dict" /\ DOMAIN x.v = {} -> [ok |-> TRUE, xs |-> <<>>]
      [] x.t = "dict" -> [ok |-> TRUE, xs |-> <<PyStr(<<"k">>)>>]   \* its keys, all str
      [] OTHER -> [ok |-> FALSE]

\* the Networks loop: first non-empty IPAddresses list wins and ends the loop
RECURSIVE ActiveIp(_, _)
ActiveIp(ns, i) ==
    IF i > Len(ns) THEN [ok |-> TRUE, ip |-> None]
    ELSE IF ~HasGet(ns[i]) THEN [ok |-> FALSE]
    ELSE LET ips == Get(ns[i], "IPAddresses")
         IN  IF ips.t = "list" /\ Truthy(ips)
             THEN [ok |-> TRUE, ip |-> ips.v[1]]
             ELSE ActiveIp(ns, i + 1)

\* datetime.now(tz=lbu.tzinfo or timezone.utc) - lbu, then days to one decimal
BootAgeDays(lbu, clock) ==
    IF ~Truthy(lbu) THEN [ok |-> TRUE, x |-> None]
    ELSE IF ~lbu.v.aware THEN [ok |-> FALSE]     \* aware minus naive: TypeError
    ELSE [ok |-> TRUE,
          x |-> PyFloat(RoundHalfEven((clock - lbu.v.secs) * 10, SecondsPerDay))]

\* free_gb = round(int(free) / (1024**3), 1), None when int() raises
FreeGb(free) ==
    LET n == ToInt(free)
    IN  IF n.ok THEN PyFloat(RoundGbTenths(n.n)) ELSE None

\* isinstance(tpm, str) and "2.0" in tpm
TpmOk(tpm) == tpm.t = "str" /\ Contains(tpm.v, <<"2", ".", "0">>)

\* (bit_enabled is False) and (bit_encrypted is False)
BitOk(bit_enabled, bit_encrypted) == IsFalse(bit_enabled) /\ IsFalse(bit_encrypted)

\* a variant: FreeOk with the threshold exclusive
FreeOk_Strict(free_gb) == ~IsNone(free_gb) /\ free_gb.v > MIN_FREE_GB * 10

\* (free_gb is not None) and (free_gb >= MIN_FREE_GB)
FreeOk(free_gb) == ~IsNone(free_gb) /\ free_gb.v >= MIN_FREE_GB * 10

\* str(x).lower() in ("true","1","yes","on")
WordOk(x) == Lower(Str(x)) \in TruthWords

\* a variant: ReadyVerdict without the BitLocker check
ReadyVerdict_NoBitLocker(uefi_ok, sboot_ok, tpm_ok, bit_ok, free_ok) ==
    uefi_ok /\ sboot_ok /\ tpm_ok /\ free_ok

\* all([uefi_ok, sboot_ok, tpm_ok, bit_ok, free_ok])
ReadyVerdict(uefi_ok, sboot_ok, tpm_ok, bit_ok, free_ok) ==
    uefi_ok /\ sboot_ok /\ tpm_ok /\ bit_ok /\ free_ok

\* a variant: StoredCheck storing false where the source is absent
StoredCheck_NeverUnknown(ok, src) == PyBool(ok)

\* ok if src is not None else None
StoredCheck(ok, src) == IF ~IsNone(src) THEN PyBool(ok) ELSE None

\* bit_ok if (bit_enabled is not None or bit_encrypted is not None) else None
StoredBitLocker(ok, bit_enabled, bit_encrypted) ==
    IF ~IsNone(bit_enabled) \/ ~IsNone(bit_encrypted) THEN PyBool(ok) ELSE None

\* one pass of the loop body; [ok |-> FALSE] when it raises
ExtractRow(e, blob_name, clock) ==
    LET sysinfo == Or(Get(e, "sysinfo"), EmptyDict)
    IN  IF ~HasGet(sysinfo) THEN [ok |-> FALSE] ELSE
    LET hw     == Or(Get(sysinfo, "Hardware"), EmptyDict)
        osinfo == Or(Get(sysinfo, "OS"), EmptyDict)
        disks  == Or(Get(sysinfo, "Disks"), EmptyList)
        d0     == Disk0(disks)
    IN  IF ~d0.ok \/ ~HasGet(hw) THEN [ok |-> FALSE] ELSE
    LET disk0 == d0.x
        ts    == safe_dt(Or(Or(Get(e, "time"), Get(e, "@timestamp")), Get(e, "timestamp")))
        level == Or(Or(Get(e, "level"), Get(e, "Level")), Get(e, "severity"))
        tag   == Or(Or(Or(Get(e, "service_tag"), Get(hw, "ServiceTag")),
                       Get(e, "ServiceTag")), Get(e, "serviceTag"))
        uefi  == Get(hw, "isUsingUEFI")
        sboot == Get(hw, "safebootEnabled")
        tpm   == Get(hw, "tpmSpecVersion")
    IN  IF ~HasGet(disk0) THEN [ok |-> FALSE] ELSE
    LET bit_enabled   == Get(disk0, "BitLockerEnabled")
        bit_encrypted == Get(disk0, "BitLockerEncrypted")
        free_gb       == FreeGb(Get(disk0, "FreeSpace"))
    IN  IF ~HasGet(osinfo) THEN [ok |-> FALSE] ELSE
    LET nets == Iterate(Or(Get(sysinfo, "Networks"), EmptyList))
    IN  IF ~nets.ok THEN [ok |-> FALSE] ELSE
    LET active_ip == ActiveIp(nets.xs, 1)
    IN  IF ~active_ip.ok THEN [ok |-> FALSE] ELSE
    LET lbu == safe_dt(Get(osinfo, "LastBootUpTime"))
        boot_age_days == BootAgeDays(lbu, clock)
    IN  IF ~boot_age_days.ok THEN [ok |-> FALSE] ELSE
    LET tpm_ok   == TpmOk(tpm)
        bit_ok   == BitOk(bit_enabled, bit_encrypted)
        free_ok  == FreeOk(free_gb)
        uefi_ok  == WordOk(uefi)
        sboot_ok == WordOk(sboot)
        ready    == ReadyVerdict(uefi_ok, sboot_ok, tpm_ok, bit_ok, free_ok)
    IN  [ok |-> TRUE,
         row |-> [_blob |-> blob_name,
                  time |-> ts,
                  level |-> level,
                  service_tag |-> tag,
                  UEFI |-> StoredCheck(uefi_ok, uefi),
                  SecureBoot |-> StoredCheck(sboot_ok, sboot),
                  TPM2 |-> StoredCheck(tpm_ok, tpm),
                  BitLockerOff |-> StoredBitLocker(bit_ok, bit_enabled, bit_encrypted),
                  FreeGB |-> free_gb,
                  ActiveIP |-> active_ip.ip,
                  LastBoot |-> lbu,
                  BootAgeDays |-> boot_age_days.x,
                  Ready |-> ready]]

\* the whole call: the rows in event order, or raised when any pass raises
RECURSIVE ExtractFrom(_, _, _, _, _)
ExtractFrom(evs, i, blob_name, clock, acc) ==
    IF i > Len(evs) THEN [raised |-> FALSE, rows |-> acc]
    ELSE LET r == ExtractRow(evs[i], blob_name, clock)
         IN  IF ~r.ok THEN [raised |-> TRUE, rows |-> <<>>]
             ELSE ExtractFrom(evs, i + 1, blob_name, clock, Append(acc, r.row))

extract_readiness_rows(evs, blob_name, clock) == ExtractFrom(evs, 1, blob_name, clock, <<>>)

----------------------------------------------------------------------------
(* Input events *)

\* marks a key left out of a dict literal
ABSENT == [t |-> "absent", v |-> <<>>]

\* the dict with the given <<key, value>> pairs, ABSENT ones left out
Obj(pairs) == PyDict({p \in pairs : p[2].t # "absent"})

Text_Yes == <<"Y","e","s">>
Text_no == <<"n","o">>
Text_ON == <<"O","N">>
Text_abc == <<"a","b","c">>
Text_TPM20 == <<"2",".","0">>
Text_TPM12 == <<"1",".","2">>
Text_16GiB == <<"1","7","1","7","9","8","6","9","1","8","4">>      \* 16 * 1024**3
Text_Rounds16 == <<"1","7","1","2","6","1","8","2","0","9","3">>   \* rounds up to 16.0
Text_Rounds159 == <<"1","7","1","2","6","1","8","2","0","9","2">>  \* rounds down to 15.9

UefiValues == {ABSENT, PyTrue, PyStr(Text_Yes), PyStr(Text_no)}
SbootValues == {ABSENT, PyStr(Text_ON), PyFalse, PyInt(<<"1">>)}
TpmValues == {ABSENT, PyStr(Text_TPM20), PyStr(Text_TPM12), PyInt(<<"2">>)}
BitEnabledValues == {ABSENT, PyFalse, PyTrue, PyInt(<<"0">>)}
BitEncryptedValues == {ABSENT, None, PyFalse, PyTrue}
FreeValues == {ABSENT, PyInt(Text_16GiB), PyInt(Text_Rounds16), PyInt(Text_Rounds159),
               PyStr(Text_16GiB), PyStr(Text_abc)}

Hardware(uefi, sboot, tpm) ==
    Obj({<<"isUsingUEFI", uefi>>, <<"safebootEnabled", sboot>>, <<"tpmSpecVersion", tpm>>})
Disk(enabled, encrypted, free) ==
    Obj({<<"BitLockerEnabled", enabled>>, <<"BitLockerEncrypted", encrypted>>,
         <<"FreeSpace", free>>})
Event(time, tag, sysinfo) ==
    Obj({<<"time", time>>, <<"service_tag", tag>>, <<"sysinfo", sysinfo>>})

GoodHardware == Hardware(PyTrue, PyStr(Text_ON), PyStr(Text_TPM20))
GoodDisk == Disk(PyFalse, PyFalse, PyInt(Text_16GiB))
NetWithIp == Obj({<<"IPAddresses", PyList(<<PyStr(<<"i","p">>)>>)>>})
NetNoIp == Obj({<<"IPAddresses", EmptyList>>})
Tag_A == PyStr(<<"A">>)
Tag_B == PyStr(<<"B">>)

\* every combination of the fields the five checks read
CheckEvents ==
    {Event(PyInt(<<"1">>), Tag_A,
           Obj({<<"Hardware", Hardware(u, sb, tp)>>,
                <<"Disks", PyList(<<Disk(en, enc, fr)>>)>>})) :
        u \in UefiValues, sb \in SbootValues, tp \in TpmValues,
        en \in BitEnabledValues, enc \in BitEncryptedValues, fr \in FreeValues}

SysinfoNonDicts == {ABSENT, PyStr(<<>>), PyStr(<<"x">>)}
HardwareShapes == {ABSENT, PyList(<<PyInt(<<"1">>)>>), GoodHardware}
OsShapes ==
    {ABSENT, PyStr(<<"x">>)} \cup
    {Obj({<<"LastBootUpTime", b>>}) :
        b \in {ABSENT, PyInt(<<"0">>), PyDtStr(0, TRUE), PyDtStr(0, FALSE), PyStr(Text_abc)}}
DisksShapes ==
    {ABSENT, EmptyList, Obj({<<"k", PyInt(<<"1">>)>>}), PyStr(Text_abc),
     PyList(<<PyInt(<<"5">>)>>), PyList(<<GoodDisk>>), PyList(<<GoodDisk, PyStr(<<"x">>)>>)}
NetworksShapes ==
    {ABSENT, PyList(<<NetWithIp>>), PyList(<<PyStr(<<"x">>)>>),
     PyList(<<NetWithIp, PyStr(<<"x">>)>>), PyList(<<NetNoIp, NetWithIp>>),
     PyInt(<<"5">>), Obj({<<"k", PyInt(<<"1">>)>>})}

\* every combination of the shapes of the nested containers
ShapeEvents ==
    {Event(PyInt(<<"2">>), Tag_B, si) : si \in SysinfoNonDicts} \cup
    {Event(PyInt(<<"2">>), Tag_B,
           Obj({<<"Hardware", hw>>, <<"OS", os>>, <<"Disks", ds>>, <<"Networks", ns>>})) :
        hw \in HardwareShapes, os \in OsShapes, ds \in DisksShapes, ns \in NetworksShapes}

\* the events of the multi-event documents
Ev_Ready == Event(PyInt(<<"2">>), Tag_A,
                 Obj({<<"Hardware", GoodHardware>>, <<"Disks", PyList(<<GoodDisk>>)>>}))
Ev_Older == Event(PyInt(<<"1">>), Tag_A,
                 Obj({<<"Hardware", GoodHardware>>, <<"Disks", EmptyList>>}))
Ev_Other == Event(PyInt(<<"3">>), Tag_B, ABSENT)
Ev_NoSysinfoDict == Event(PyInt(<<"3">>), Tag_A, PyStr(<<"x">>))
Ev_Booted == Event(ABSENT, Tag_B,
                  Obj({<<"Hardware", GoodHardware>>, <<"Disks", PyList(<<GoodDisk>>)>>,
                       <<"OS", Obj({<<"LastBootUpTime", PyInt(<<"0">>)>>})>>}))
DocEvents == {Ev_Ready, Ev_Older, Ev_Other, Ev_NoSysinfoDict, Ev_Booted}

MaxEvents == 2
MaxTicks == 2

RECURSIVE SeqsUpTo(_, _)
SeqsUpTo(S, n) ==
    IF n = 0 THEN {<<>>}
    ELSE LET shorter == SeqsUpTo(S, n - 1)
         IN  shorter \cup {Append(q, x) : q \in shorter, x \in S}

EventLists ==
    {<<e>> : e \in CheckEvents \cup ShapeEvents} \cup SeqsUpTo(DocEvents, MaxEvents)

----------------------------------------------------------------------------
(* Direct calls of extract_readiness_rows, at the wall-clock time `now` *)

NotCalled == [called |-> FALSE, raised |-> FALSE, rows |-> <<>>]
Idle == [called |-> FALSE]
NoMemo == [valid |-> FALSE]

InitExtract ==
    /\ events \in EventLists
    /\ now = 0
    /\ out = NotCalled
    /\ prev = NotCalled
    /\ store = <<>>
    /\ metaMemo = NoMemo
    /\ blob_cache = <<>>
    /\ board = Idle

CallExtract ==
    /\ out' = [called |-> TRUE] @@ extract_readiness_rows(events, "doc", now)
    /\ prev' = out
    /\ UNCHANGED <<events, now, store, metaMemo, blob_cache, board>>

Tick ==
    /\ now < MaxTicks * (SecondsPerDay \div 10)
    /\ now' = now + SecondsPerDay \div 10
    /\ UNCHANGED <<events, out, prev, store, metaMemo, blob_cache, board>>

NextExtract == CallExtract \/ Tick

SpecExtract == InitExtract /\ [][NextExtract]_vars

----------------------------------------------------------------------------
(* parse_json_text.  A text is its lines; a line is valid JSON for a value *)
(* (json), not JSON (junk) or whitespace (blank).  A pretty-printed text   *)
(* has only junk lines, yet json.loads of the whole text gives `pretty`.   *)

JsonLine(x) == [k |-> "json", x |-> x]
JunkLine == [k |-> "junk", x |-> None]
BlankLine == [k |-> "blank", x |-> None]
Text(lines) == [lines |-> lines, pretty |-> ABSENT]
PrettyText(lines, x) == [lines |-> lines, pretty |-> x]

\* [x for x in xs if isinstance(x, dict)]
RECURSIVE DictsOf(_, _)
DictsOf(xs, i) ==
    IF i > Len(xs) THEN <<>>
    ELSE (IF xs[i].t = "dict" THEN <<xs[i]>> ELSE <<>>) \o DictsOf(xs, i + 1)

\* the per-line loop of the NDJSON branch
RECURSIVE LineObjects(_, _)
LineObjects(lines, i) ==
    IF i > Len(lines) THEN <<>>
    ELSE LET ln == lines[i]
             got == CASE ln.k = "json" /\ ln.x.t = "dict" -> <<ln.x>>
                      [] ln.k = "json" /\ ln.x.t = "list" -> DictsOf(ln.x.v, 1)
                      [] OTHER -> <<>>
         IN  got \o LineObjects(lines, i + 1)

\* json.loads(text): [ok |-> FALSE] when it raises
JsonLoads(text) ==
    LET solid == {i \in DOMAIN text.lines : text.lines[i].k # "blank"}
    IN  IF text.pretty.t # "absent" THEN [ok |-> TRUE, x |-> text.pretty]
        ELSE IF Cardinality(solid) = 1 /\ \A i \in solid : text.lines[i].k = "json"
        THEN [ok |-> TRUE, x |-> text.lines[CHOOSE i \in solid : TRUE].x]
        ELSE [ok |-> FALSE]

parse_json_text(text) ==
    LET objs == IF Len(text.lines) > 1 THEN LineObjects(text.lines, 1) ELSE <<>>
        obj  == JsonLoads(text)
    IN  IF Len(objs) > 0 THEN objs
        ELSE IF obj.ok /\ obj.x.t = "list" THEN DictsOf(obj.x.v, 1)
        ELSE IF obj.ok /\ obj.x.t = "dict" THEN <<obj.x>>
        ELSE <<>>

----------------------------------------------------------------------------
(* The blob container and load_board.  Blob names are numbered in their    *)
(* string order; NameExt gives a name's extension.  One listing path is    *)
(* modelled (one tab, one service-tag filter).                             *)

MaxUpdates == 1
MaxEventsArg == 3

BlobNames == {1, 2, 3}
Extensions == <<".log", ".json", ".txt">>
NameExt(name) == Extensions[((name - 1) % Len(Extensions)) + 1]

Doc_Empty == Text(<<>>)
Doc_Two == Text(<<JsonLine(Ev_Older), JsonLine(Ev_Ready)>>)
Doc_One == Text(<<JsonLine(PyList(<<Ev_Other, PyInt(<<"5">>)>>))>>)
Doc_Bad == Text(<<JunkLine, BlankLine, JsonLine(Ev_NoSysinfoDict)>>)
Doc_Pretty == PrettyText(<<JunkLine, JunkLine>>, Ev_Booted)
DocTexts == {Doc_Empty, Doc_Two, Doc_One, Doc_Bad, Doc_Pretty}
InitialTexts == <<Doc_Empty, Doc_Two, Doc_One>>
UpdateTexts == {Doc_Bad, Doc_Pretty}
InitialText(name) == InitialTexts[((name - 1) % Len(InitialTexts)) + 1]

RECURSIVE SumEtags(_)
SumEtags(S) ==
    IF S = {} THEN 0
    ELSE LET name == CHOOSE x \in S : TRUE IN store[name].etag + SumEtags(S \ {name})

\* FILE_PATTERNS split on commas, stripped and lowered; <<>> switches the filter off
PatternChoices == {<<>>, <<".log", ".json", ".ndjson">>}
MaxBlobsChoices == {2, 3}
MaxEventsChoices == {1, MaxEventsArg}
FailingChoices == {{}, {2}}

\* list_blob_meta: name -> etag of every blob in the container
list_blob_meta == [name \in DOMAIN store |-> store[name].etag]

\* the names of S in ascending order
RECURSIVE Sorted(_)
Sorted(S) ==
    IF S = {} THEN <<>>
    ELSE LET least == CHOOSE x \in S : \A y \in S : x <= y
         IN  <<least>> \o Sorted(S \ {least})

\* lines 231-238: filter by extension, sort by name, keep the last max_blobs
SelectedNames(meta, exts, max_blobs) ==
    LET kept == IF Len(exts) > 0
                THEN {name \in DOMAIN meta : \E i \in DOMAIN exts : NameExt(name) = exts[i]}
                ELSE DOMAIN meta
        names == Sorted(kept)
    IN  IF max_blobs # 0 /\ Len(names) > max_blobs
        THEN SubSeq(names, Len(names) - max_blobs + 1, Len(names))
        ELSE names

\* a variant: CacheHit without the ETag comparison
CacheHit_AnyEtag(cache, name, etag) == name \in DOMAIN cache

\* cached and cached.get("etag") == etag
CacheHit(cache, name, etag) == name \in DOMAIN cache /\ cache[name].etag = etag

\* f with f[k] = x added or replaced
Put(f, k, x) == [j \in DOMAIN f \cup {k} |-> IF j = k THEN x ELSE f[j]]

\* df.sort_values("time", ascending=False, na_position="last"): a before b
TimeBefore(a, b) ==
    /\ ~IsNone(a.time)
    /\ IsNone(b.time) \/ a.time.v.secs > b.time.v.secs

\* insertion of row r into a sorted frame, after the rows it does not precede
RECURSIVE InsertRow(_, _)
InsertRow(rows, r) ==
    IF rows = <<>> THEN <<r>>
    ELSE IF TimeBefore(r, Head(rows)) THEN <<r>> \o rows
    ELSE <<Head(rows)>> \o InsertRow(Tail(rows), r)

RECURSIVE SortByTime(_, _)
SortByTime(rows, i) ==
    IF i > Len(rows) THEN <<>>
    ELSE InsertRow(SortByTime(rows, i + 1), rows[i])

RECURSIVE Concat(_, _)
Concat(frames, i) == IF i > Len(frames) THEN <<>> ELSE frames[i] \o Concat(frames, i + 1)

\* a variant: CapReached with the cap exclusive
CapReached_Strict(total, max_events) == total > max_events

\* if total >= max_events: break
CapReached(total, max_events) == total >= max_events

\* parse_json_text and extract_readiness_rows are pure but for the clock:
\* their results for every text, blob name and clock value, computed once
Clocks == {tick * (SecondsPerDay \div 10) : tick \in 0..MaxTicks}
ParsedRows ==
    [text \in DocTexts |-> [name \in BlobNames |-> [clock \in Clocks |->
        LET evs == parse_json_text(text)
        IN  [events |-> Len(evs), got |-> extract_readiness_rows(evs, name, clock)]]]]

\* what reading, parsing and extracting each blob gives at this moment
Documents == [name \in BlobNames |-> ParsedRows[store[name].text][name][now]]

\* the loop of lines 240-261 from position i on; `failing` is the set of names
\* whose read_blob_text raises in this refresh, docs[name] what the read,
\* parse and extraction of a blob give; acc carries the loop's state
RECURSIVE ScanFrom(_, _, _, _, _, _, _)
ScanFrom(names, i, meta, max_events, failing, docs, acc) ==
    IF i > Len(names) THEN acc
    ELSE
    LET name == names[i]
        etag == meta[name]
        seen == [acc EXCEPT !.visited = Append(@, name)]
    IN  IF CacheHit(acc.cache, name, etag)
        THEN LET df_rows == acc.cache[name].rows
                 next == [seen EXCEPT !.from_cache = @ \cup {name},
                                      !.frames = Append(@, df_rows),
                                      !.scanned = Append(@, name),
                                      !.total = @ + Len(df_rows)]
             IN  IF Len(df_rows) = 0
                 THEN ScanFrom(names, i + 1, meta, max_events, failing, docs, seen)
                 ELSE IF CapReached(next.total, max_events) THEN next
                 ELSE ScanFrom(names, i + 1, meta, max_events, failing, docs, next)
        ELSE IF name \in failing
        THEN ScanFrom(names, i + 1, meta, max_events, failing, docs,
                      [seen EXCEPT !.raised = @ \cup {name}])
        ELSE
        LET read   == [seen EXCEPT !.downloaded = @ \cup {name}]
            parsed == docs[name]
        IN  IF parsed.events = 0
            THEN ScanFrom(names, i + 1, meta, max_events, failing, docs, read)
            ELSE
            LET got == parsed.got
            IN  IF got.raised
                THEN ScanFrom(names, i + 1, meta, max_events, failing, docs,
                              [read EXCEPT !.raised = @ \cup {name}])
                ELSE
                LET next == [read EXCEPT
                                !.cache = Put(@, name, [etag |-> etag, rows |-> got.rows]),
                                !.frames = Append(@, got.rows),
                                !.scanned = Append(@, name),
                                !.total = @ + Len(got.rows)]
                IN  IF CapReached(next.total, max_events) THEN next
                    ELSE ScanFrom(names, i + 1, meta, max_events, failing, docs, next)

\* the loop's state at line 240
ScanStart(cache) ==
    [cache |-> cache, scanned |-> <<>>, frames |-> <<>>, total |-> 0,
     visited |-> <<>>, downloaded |-> {}, from_cache |-> {}, raised |-> {}]

Init ==
    /\ events = <<>>
    /\ now = 0
    /\ out = NotCalled
    /\ prev = NotCalled
    /\ store = [name \in BlobNames |-> [etag |-> 0, text |-> InitialText(name), past |-> <<>>]]
    /\ metaMemo = NoMemo
    /\ blob_cache = <<>>
    /\ board = Idle

\* a blob is overwritten: new content, new ETag
UpdateBlob(name, text) ==
    /\ SumEtags(BlobNames) < MaxUpdates
    /\ store' = [store EXCEPT ![name] = [etag |-> @.etag + 1, text |-> text,
                                       past |-> Append(@.past, @.text)]]
    /\ UNCHANGED <<events, now, out, prev, metaMemo, blob_cache, board>>

\* the ttl of _list_meta_cached (1 s) runs out
ExpireMeta ==
    /\ metaMemo.valid
    /\ metaMemo' = NoMemo
    /\ UNCHANGED <<events, now, out, prev, store, blob_cache, board>>

\* "Force refresh (clear cache)": the run ends in st.experimental_rerun() before
\* any board is rendered
clear_cache ==
    /\ blob_cache' = <<>>
    /\ metaMemo' = NoMemo
    /\ board' = Idle
    /\ UNCHANGED <<events, now, out, prev, store>>

\* lines 263-268 and the session state the refresh leaves behind
Refreshed(scan, meta, names, fresh, patterns, max_blobs, max_events) ==
    /\ metaMemo' = [valid |-> TRUE, meta |-> meta]
    /\ blob_cache' = scan.cache
    /\ board' = [called |-> TRUE,
                 df |-> SortByTime(Concat(scan.frames, 1), 1),
                 scanned |-> scan.scanned,
                 frames |-> scan.frames,
                 visited |-> scan.visited,
                 downloaded |-> scan.downloaded,
                 from_cache |-> scan.from_cache,
                 raised |-> scan.raised,
                 meta |-> meta,
                 selected |-> names,
                 fresh |-> fresh,
                 patterns |-> patterns,
                 max_blobs |-> max_blobs,
                 max_events |-> max_events]
    /\ UNCHANGED <<events, now, out, prev, store>>

\* lines 230-238: the listing, from _list_meta_cached's memo while it is valid
Listing == IF metaMemo.valid THEN metaMemo.meta ELSE list_blob_meta

load_board(patterns, max_blobs, max_events, failing) ==
    Refreshed(ScanFrom(SelectedNames(Listing, patterns, max_blobs), 1, Listing,
                       max_events, failing, Documents, ScanStart(blob_cache)),
              Listing, SelectedNames(Listing, patterns, max_blobs), ~metaMemo.valid,
              patterns, max_blobs, max_events)

Next ==
    \/ \E name \in BlobNames, text \in UpdateTexts : UpdateBlob(name, text)
    \/ ExpireMeta
    \/ clear_cache
    \/ \E patterns \in PatternChoices, max_blobs \in MaxBlobsChoices,
          max_events \in MaxEventsChoices, failing \in FailingChoices :
            load_board(patterns, max_blobs, max_events, failing)

Spec == Init /\ [][Next]_vars

----------------------------------------------------------------------------
(* Properties of extract_readiness_rows, checked under SpecExtract *)

\* the value under key k of the input x, ABSENT when x is no dict or lacks k
Field(x, k) == IF x.t = "dict" /\ k \in DOMAIN x.v THEN x.v[k] ELSE ABSENT
Missing(x) == x.t \in {"absent", "NoneType"}
HardwareOf(e) == Field(Field(e, "sysinfo"), "Hardware")
DisksOf(e) == Field(Field(e, "sysinfo"), "Disks")
FirstDiskOf(e) ==
    IF DisksOf(e).t = "list" /\ Len(DisksOf(e).v) > 0 THEN DisksOf(e).v[1] ELSE ABSENT
Returned == out.called /\ ~out.raised

\* the stored free-space check of a row: FreeGB known and at least MIN_FREE_GB
FreeCheck(r) == r.FreeGB.t = "float" /\ r.FreeGB.v >= MIN_FREE_GB * 10
FourChecksTrue(r) ==
    r.UEFI = PyTrue /\ r.SecureBoot = PyTrue /\ r.TPM2 = PyTrue /\ r.BitLockerOff = PyTrue

\* C1: in every row extract_readiness_rows returns, Ready is true exactly when
\* the stored UEFI, SecureBoot, TPM2 and BitLockerOff are all True (not False,
\* not None) and FreeGB is known and >= MIN_FREE_GB.
C1_ReadyIffAllChecksTrue ==
    out.called =>
        \A i \in DOMAIN out.rows :
            out.rows[i].Ready <=> (FourChecksTrue(out.rows[i]) /\ FreeCheck(out.rows[i]))

\* a call that returned a Ready row, all five stored checks passing
C1_Witness ==
    /\ Returned
    /\ \E i \in DOMAIN out.rows :
          out.rows[i].Ready /\ FourChecksTrue(out.rows[i]) /\ FreeCheck(out.rows[i])

\* C2: when the source field of a check is absent from the event (or null),
\* the row stores that check as None, not False, and Ready is false; for
\* BitLockerOff that is when both BitLockerEnabled and BitLockerEncrypted are
\* absent, which includes Disks absent or empty.
C2_AbsentSourceIsUnknown ==
    Returned =>
        \A i \in DOMAIN out.rows :
            LET e == events[i]
                r == out.rows[i]
            IN  /\ Missing(Field(HardwareOf(e), "isUsingUEFI")) => IsNone(r.UEFI) /\ ~r.Ready
                /\ Missing(Field(HardwareOf(e), "safebootEnabled")) =>
                        IsNone(r.SecureBoot) /\ ~r.Ready
                /\ Missing(Field(HardwareOf(e), "tpmSpecVersion")) => IsNone(r.TPM2) /\ ~r.Ready
                /\ (/\ Missing(Field(FirstDiskOf(e), "BitLockerEnabled"))
                    /\ Missing(Field(FirstDiskOf(e), "BitLockerEncrypted"))) =>
                        IsNone(r.BitLockerOff) /\ ~r.Ready

\* an event with its Hardware checks present and passing and an empty Disks
\* list: BitLockerOff is stored as None and the row is not Ready
C2_Witness ==
    /\ Returned
    /\ \E i \in DOMAIN out.rows :
          /\ DisksOf(events[i]) = EmptyList
          /\ IsNone(out.rows[i].BitLockerOff)
          /\ out.rows[i].UEFI = PyTrue
          /\ ~out.rows[i].Ready

\* C3: extract_readiness_rows never raises and returns one row per event,
\* whatever the shape of the nested fields.
C3_NeverRaises ==
    out.called => ~out.raised /\ Len(out.rows) = Len(events)

\* C4: two calls on the same event list return identical records, whatever
\* the wall-clock time of each call.
C4_SameRowsWhateverTheTime ==
    (out.called /\ prev.called) => out = prev

\* 10 * free - tenths * 2^30, for free in limbs: the rounding error, in units
\* of a tenth of a byte-GiB
RoundingError(n, tenths) ==
    (n.hi * 10 + ((n.lo * 10) \div Limb) - tenths * (GiB \div Limb)) * Limb
        + ((n.lo * 10) % Limb)

\* C5: FreeGB is FreeSpace / 2^30 rounded to one decimal, the free-space check
\* passes exactly when FreeGB >= MIN_FREE_GB (16 GiB of free bytes give 16.0
\* and pass), and an absent or non-numeric FreeSpace gives FreeGB None and a
\* row that is not Ready.
C5_FreeSpaceInclusive ==
    Returned =>
        \A i \in DOMAIN out.rows :
            LET free == Field(FirstDiskOf(events[i]), "FreeSpace")
                r == out.rows[i]
            IN  /\ free = PyInt(Text_16GiB) =>
                        r.FreeGB = PyFloat(MIN_FREE_GB * 10) /\ FreeCheck(r)
                /\ free.t = "int" =>
                        /\ r.FreeGB.t = "float"
                        /\ 2 * RoundingError(ParseDecimal(free.v, 1, [hi |-> 0, lo |-> 0]),
                                             r.FreeGB.v) \in -GiB..GiB
                /\ (Missing(free) \/ (free.t = "str" /\ ~IsDecimal(free.v))) =>
                        IsNone(r.FreeGB) /\ ~r.Ready
                /\ FourChecksTrue(r) => (r.Ready <=> FreeCheck(r))

\* exactly 16 GiB free with the other four checks passing: the row is Ready
C5_Witness ==
    /\ Returned
    /\ \E i \in DOMAIN out.rows :
          /\ Field(FirstDiskOf(events[i]), "FreeSpace") = PyInt(Text_16GiB)
          /\ out.rows[i].FreeGB = PyFloat(MIN_FREE_GB * 10)
          /\ out.rows[i].Ready

----------------------------------------------------------------------------
(* Properties of load_board, checked under Spec *)

Range(q) == {q[i] : i \in DOMAIN q}
\* a step that is a load_board call (the steps that leave every variable
\* unchanged aside)
LoadStep == store' = store /\ metaMemo'.valid
RECURSIVE TotalRows(_, _)
TotalRows(frames, n) == IF n = 0 THEN 0 ELSE Len(frames[n]) + TotalRows(frames, n - 1)
\* rows with the one column that depends on the time of the call blanked
Timeless(rows) == [i \in DOMAIN rows |-> [rows[i] EXCEPT !.BootAgeDays = None]]
\* what extracting `text` as blob `name` gives, the clock aside
RowsOfText(text, name) == Timeless(ParsedRows[text][name][0].got.rows)
\* the text blob `name` held under ETag `etag`
TextUnder(name, etag) ==
    IF etag = store[name].etag THEN store[name].text ELSE store[name].past[etag + 1]

\* C6: the frame load_board returns holds exactly one row per service_tag,
\* and that row has the latest time among the extracted rows with that tag.
C6_OneRecordPerDevice ==
    board.called =>
        /\ \A i, j \in DOMAIN board.df :
              i # j => board.df[i].service_tag # board.df[j].service_tag
        /\ \A k \in DOMAIN board.frames : \A m \in DOMAIN board.frames[k] :
              \E i \in DOMAIN board.df :
                  /\ board.df[i].service_tag = board.frames[k][m].service_tag
                  /\ ~TimeBefore(board.frames[k][m], board.df[i])

\* C7: with no cache clear in between, a refresh downloads no document that
\* the refresh before it read (or took from the cache) under the same listed
\* ETag.
C7_UnchangedEtagNotDownloadedAgain ==
    [][(LoadStep /\ board.called) =>
            \A name \in board'.downloaded :
                ~(/\ name \in board.downloaded \cup board.from_cache
                  /\ board.meta[name] = board'.meta[name])]_vars

\* C8: a document whose read, parse or extraction raises does not stop the
\* loop (it ends only at the end of the selection or at the max_events cap)
\* and is represented in the returned frame by a row of its own.
C8_FailedDocumentIsRecorded ==
    board.called =>
        \A name \in board.raised :
            /\ \/ Len(board.visited) = Len(board.selected)
               \/ TotalRows(board.frames, Len(board.frames)) >= board.max_events
            /\ \E i \in DOMAIN board.df : board.df[i]._blob = name

\* C9: the selected documents are at most max_blobs, the greatest matching
\* names of the listing; they are visited in ascending name order; the loop
\* stops right after the first document that brings the row count to
\* max_events, so no later document is read or included and the included
\* documents but the last total fewer than max_events rows.
C9_ScanOrderAndEventCap ==
    board.called =>
        LET matching == {name \in DOMAIN board.meta :
                            Len(board.patterns) = 0 \/
                            \E i \in DOMAIN board.patterns : NameExt(name) = board.patterns[i]}
            frames == board.frames
        IN  /\ Len(board.selected) <= board.max_blobs
            /\ Range(board.selected) \subseteq matching
            /\ Len(board.selected) = board.max_blobs \/ Range(board.selected) = matching
            /\ \A a \in matching \ Range(board.selected), b \in Range(board.selected) : a < b
            /\ \A i, j \in DOMAIN board.selected : i < j => board.selected[i] < board.selected[j]
            /\ Len(board.visited) <= Len(board.selected)
            /\ board.visited = SubSeq(board.selected, 1, Len(board.visited))
            /\ board.downloaded \cup board.from_cache \cup Range(board.scanned)
                    \subseteq Range(board.visited)
            /\ Len(frames) = Len(board.scanned)
            /\ Len(frames) > 0 => TotalRows(frames, Len(frames) - 1) < board.max_events
            /\ Len(board.visited) < Len(board.selected) =>
                    TotalRows(frames, Len(frames)) >= board.max_events
            /\ (Len(frames) > 0 /\ TotalRows(frames, Len(frames)) >= board.max_events) =>
                    board.visited[Len(board.visited)] = board.scanned[Len(board.scanned)]

\* the cap is reached by the second included document of three selected, the
\* third is never visited; the selection itself was cut to max_blobs
C9_Witness ==
    /\ board.called
    /\ Len(board.scanned) = 2
    /\ Len(board.visited) < Len(board.selected)
    /\ TotalRows(board.frames, 2) >= board.max_events

\* the parts of C10 that hold whatever listing a refresh works from: cached
\* rows are used only under the listed ETag and are the cached rows, and the
\* first refresh after clear_cache uses none
CacheUseRule ==
    /\ \A k \in DOMAIN board'.scanned :
          board'.scanned[k] \in board'.from_cache =>
              /\ board'.scanned[k] \in DOMAIN blob_cache
              /\ blob_cache[board'.scanned[k]].etag = board'.meta[board'.scanned[k]]
              /\ board'.frames[k] = blob_cache[board'.scanned[k]].rows
    /\ ~board.called => board'.from_cache = {}
ClearRule == clear_cache => blob_cache' = <<>> /\ ~board'.called

\* C10 as stated: after every refresh each cache entry holds the rows of the
\* text its blob held under the entry's ETag, and the rows returned for each
\* included document are those of the document's current text.
C10_RowsMatchCurrentContent ==
    [][/\ ClearRule
       /\ LoadStep =>
            /\ CacheUseRule
            /\ \A name \in DOMAIN blob_cache' :
                  Timeless(blob_cache'[name].rows)
                      = RowsOfText(TextUnder(name, blob_cache'[name].etag), name)
            /\ \A k \in DOMAIN board'.scanned :
                  Timeless(board'.frames[k])
                      = RowsOfText(store[board'.scanned[k]].text, board'.scanned[k])]_vars

\* C10 amended: the same, for each included document whose listed ETag is
\* the ETag the document has when the refresh runs (the listing may be up to
\* one second old) and for the cache entry the refresh writes or uses for
\* it; the rule for using cached rows and the effect of clear_cache hold for
\* every refresh.
C10_CurrentListingRowsMatchContent ==
    [][/\ ClearRule
       /\ LoadStep =>
            /\ CacheUseRule
            /\ \A k \in DOMAIN board'.scanned :
                  LET name == board'.scanned[k]
                  IN  board'.meta[name] = store[name].etag =>
                          /\ Timeless(board'.frames[k]) = RowsOfText(store[name].text, name)
                          /\ blob_cache'[name].etag = store[name].etag
                          /\ Timeless(blob_cache'[name].rows)
                                = RowsOfText(store[name].text, name)]_vars

\* a refresh from a current listing that served one document from the cache
\* and downloaded another whose text had been replaced
C10_Witness ==
    /\ board.called
    /\ board.meta = list_blob_meta
    /\ board.from_cache # {}
    /\ \E name \in board.downloaded :
          name \in Range(board.scanned) /\ board.meta[name] > 0

=============================================================================
